---- MODULE Spec2Model ----
(***************************************************************************)
(* Model of the route compiler of lib/common/utils: createRoutes (the     *)
(* per-file insertion with its sibling sort), cleanChildrenRoutes (the     *)
(* index-collapsing pass) and flatRoutes (the flattener).                  *)
(*                                                                         *)
(* A JavaScript string is a sequence of symbols.  The symbols the code     *)
(* inspects ("/", "_", ":", "?", "*", "-") are single symbols; a word that *)
(* the code only copies or compares as a whole ("a", "index", "all",       *)
(* "pages", ".vue") is one symbol.  Indices are 0-based as in the source.  *)
(***************************************************************************)
EXTENDS Integers, Sequences, FiniteSets, TLC

\* Most files one call of createRoutes is given.
MaxFiles == 3

----------------------------------------------------------------------------
(* String and array primitives of the language, on sequences of symbols.   *)

Undefined == <<"undefined">>

\* arr[i], 0-based; undefined out of range
At(arr, i) == IF i >= 0 /\ i < Len(arr) THEN arr[i + 1] ELSE Undefined

\* s.indexOf(c), arr.indexOf(x): 0-based, -1 when absent
IndexOf(s, c) ==
  IF \E k \in 1..Len(s) : s[k] = c
  THEN (CHOOSE k \in 1..Len(s) : s[k] = c /\ \A j \in 1..(k - 1) : s[j] # c) - 1
  ELSE -1

\* s.includes(c)
Includes(s, c) == IndexOf(s, c) > -1

\* s.replace(c, r) with a string pattern: the first occurrence only
ReplaceFirst(s, c, r) ==
  LET k == IndexOf(s, c)
  IN IF k = -1 THEN s ELSE SubSeq(s, 1, k) \o r \o SubSeq(s, k + 2, Len(s))

\* s.split(c)
RECURSIVE Split(_, _)
Split(s, c) ==
  LET k == IndexOf(s, c)
  IN IF k = -1 THEN <<s>>
     ELSE <<SubSeq(s, 1, k)>> \o Split(SubSeq(s, k + 2, Len(s)), c)

\* arr.join(c)
RECURSIVE Join(_, _)
Join(arr, c) ==
  IF Len(arr) = 0 THEN <<>>
  ELSE IF Len(arr) = 1 THEN arr[1]
  ELSE arr[1] \o <<c>> \o Join(Tail(arr), c)

\* s.replace(/\/{2,}/g, '/')
RECURSIVE CollapseSlashes(_)
CollapseSlashes(s) ==
  IF Len(s) < 2 THEN s
  ELSE IF s[1] = "/" /\ s[2] = "/" THEN CollapseSlashes(Tail(s))
  ELSE <<s[1]>> \o CollapseSlashes(Tail(s))

----------------------------------------------------------------------------
(* The input files.                                                        *)

pagesDir == "pages"
Extensions == {".vue", ".js"}

\* the file name of a page given by its keys: pages/k1/k2.vue
PageFile(keys) == <<pagesDir>> \o <<"/">> \o Join(keys, "/") \o <<".vue">>

KA == <<"a">>
KB == <<"b">>
KIndex == <<"index">>
KP == <<"_", "p">>
KAll == <<"_">>
KAIndex == <<"a", "-", "index">>

\* The pages a call may be given (any MaxFiles of them, in any order).
FileUniverse ==
  { PageFile(k) : k \in
      { <<KIndex>>, <<KA>>, <<KB>>, <<KP>>, <<KAll>>,
        <<KA, KIndex>>, <<KA, KP>>, <<KA, KB>>, <<KA, KAll>>,
        <<KA, KP, KB>>, <<KA, KB, KIndex>>, <<KA, KIndex, KIndex>>,
        <<KP, KIndex>>, <<KIndex, KA>>, <<KAIndex>> } }

\* file.replace(/\.(vue|js)$/, '')
StripExtension(file) ==
  IF Len(file) > 0 /\ file[Len(file)] \in Extensions
  THEN SubSeq(file, 1, Len(file) - 1) ELSE file

\* file.replace(RegExp(`^${pagesDir}`), '')
StripPagesDir(file) ==
  IF Len(file) > 0 /\ file[1] = pagesDir THEN Tail(file) ELSE file

\* the keys of a file: strip the prefix and extension, split, slice(1)
Keys(file) ==
  Tail(Split(CollapseSlashes(StripExtension(StripPagesDir(file))), "/"))

----------------------------------------------------------------------------
(* Route nodes.  A forest is a sequence of nodes; children is <<>> for a   *)
(* node without a children array (createRoutes never leaves a children     *)
(* array empty: it creates one only on the way to pushing into it or into  *)
(* a descendant found in it).  named is FALSE once the name is deleted.    *)

Node(name, path, file) ==
  [name |-> name, named |-> TRUE, path |-> path, component |-> file,
   chunkName |-> StripExtension(file), children |-> <<>>]

\* the array a cursor (a sequence of 1-based child positions) points to
RECURSIVE ListAt(_, _)
ListAt(routes, cursor) ==
  IF cursor = <<>> THEN routes
  ELSE ListAt(routes[Head(cursor)].children, Tail(cursor))

\* the forest with the array at the cursor replaced
RECURSIVE WithListAt(_, _, _)
WithListAt(routes, cursor, list) ==
  IF cursor = <<>> THEN list
  ELSE [routes EXCEPT ![Head(cursor)].children =
          WithListAt(routes[Head(cursor)].children, Tail(cursor), list)]

\* Faulty variant of FindByName: the lookup never finds a sibling.
FindByNameNone(parent, name) == 0

\* _.find(parent, { name }): the position of the first match, 0 when none
FindByName(parent, name) ==
  IF \E k \in 1..Len(parent) : parent[k].named /\ parent[k].name = name
  THEN CHOOSE k \in 1..Len(parent) :
         /\ parent[k].named /\ parent[k].name = name
         /\ \A j \in 1..(k - 1) : ~(parent[j].named /\ parent[j].name = name)
  ELSE 0

\* const sanatizedKey = key.indexOf('_') === 0 ? key.replace('_', '') : key
sanatizedKey(key) ==
  IF IndexOf(key, "_") = 0 THEN ReplaceFirst(key, "_", <<>>) ELSE key

\* route.name after the key is appended
NextName(name, key) ==
  (IF name # <<>> THEN name \o <<"-">> \o sanatizedKey(key) ELSE sanatizedKey(key))
    \o (IF key = KAll THEN <<"all">> ELSE <<>>)

\* Faulty variant of NextPath: a parameter key is emitted without the '?' marker.
NextPathRequired(path, key, i, n) ==
  IF key = KIndex /\ i + 1 = n
  THEN path \o (IF i > 0 THEN <<>> ELSE <<"/">>)
  ELSE path \o <<"/">>
         \o (IF key = KAll THEN <<"*">>
             ELSE IF IndexOf(key, "_") = 0 THEN ReplaceFirst(key, "_", <<":">>)
             ELSE key)

\* route.path after the key is appended when no sibling carries the name;
\* i is the 0-based position of the key, n the number of keys
NextPath(path, key, i, n) ==
  IF key = KIndex /\ i + 1 = n
  THEN path \o (IF i > 0 THEN <<>> ELSE <<"/">>)
  ELSE path \o <<"/">>
         \o (IF key = KAll THEN <<"*">>
             ELSE IF IndexOf(key, "_") = 0 THEN ReplaceFirst(key, "_", <<":">>)
             ELSE key)
         \o (IF key # KAll /\ IndexOf(key, "_") = 0 THEN <<"?">> ELSE <<>>)

\* keys.forEach((key, i) => ...): the name, the path and the cursor (parent)
\* after the keys from position i on
RECURSIVE WalkKeys(_, _, _, _, _, _)
WalkKeys(routes, keys, i, name, path, cursor) ==
  IF i >= Len(keys) THEN [name |-> name, path |-> path, cursor |-> cursor]
  ELSE LET key == At(keys, i)
           nm == NextName(name, key)
           child == FindByName(ListAt(routes, cursor), nm)
       IN IF child # 0
          THEN WalkKeys(routes, keys, i + 1, nm, <<>>, Append(cursor, child))
          ELSE WalkKeys(routes, keys, i + 1, nm,
                        NextPath(path, key, i, Len(keys)), cursor)

----------------------------------------------------------------------------
(* The sibling comparator and the sort.                                    *)

\* Faulty variant of TokenClass: the catch-all token is not told from a static one.
TokenClassNoCatchAll(tok) == IF IndexOf(tok, ":") > -1 THEN 1 ELSE 0

\* _a[i] === '*' ? 2 : _a[i].indexOf(':') > -1 ? 1 : 0
TokenClass(tok) == IF tok = <<"*">> THEN 2 ELSE IF IndexOf(tok, ":") > -1 THEN 1 ELSE 0

\* the for loop of the comparator: i and res when it is left
RECURSIVE CompareLoop(_, _, _, _)
CompareLoop(_a, _b, i, res) ==
  IF i >= Len(_a) \/ res # 0 THEN [i |-> i, res |-> res]
  ELSE LET y == TokenClass(At(_a, i))
           z == TokenClass(At(_b, i))
           r == IF i = Len(_b) - 1 /\ y - z = 0
                THEN (IF At(_a, i) = <<"*">> THEN -1 ELSE 1)
                ELSE y - z
       IN CompareLoop(_a, _b, i + 1, r)

\* /^\/(:|\*)/.test(path)
StartsDynamic(path) ==
  Len(path) >= 2 /\ path[1] = "/" /\ path[2] \in {":", "*"}

\* the comparator given to parent.sort, on the paths of two routes
compare(a, b) ==
  IF Len(a) = 0 THEN -1
  ELSE IF Len(b) = 0 THEN 1
  ELSE IF a = <<"/">> THEN (IF StartsDynamic(b) THEN -1 ELSE 1)
  ELSE IF b = <<"/">> THEN (IF StartsDynamic(a) THEN 1 ELSE -1)
  ELSE LET _a == Split(a, "/")
           _b == Split(b, "/")
           l == CompareLoop(_a, _b, 0, 0)
       IN IF l.res = 0
          THEN (IF At(_a, l.i - 1) = <<"*">> /\ At(_b, l.i) \notin {Undefined, <<>>}
                THEN 1 ELSE -1)
          ELSE l.res

\* x may stand directly before y in a sorted array: a comparison of the two
\* (in either argument order) puts x first
MayPrecede(x, y) == compare(x.path, y.path) < 0 \/ compare(y.path, x.path) > 0

\* The orders of the positions S of list in which every neighbouring pair
\* was put in that order by a comparison.
RECURSIVE Arrangements(_, _)
Arrangements(list, S) ==
  IF S = {} THEN {<<>>}
  ELSE UNION { { <<k>> \o t : t \in { u \in Arrangements(list, S \ {k}) :
                                       u = <<>> \/ MayPrecede(list[k], list[u[1]]) } }
               : k \in S }

\* parent.sort(comparator).  The comparator is not a consistent comparison
\* function, so the language leaves the resulting order to the engine; the
\* outcomes are the orders an insertion or merge sort can justify by its
\* comparisons of neighbours.
SortOutcomes(list) ==
  { [k \in 1..Len(list) |-> list[p[k]]] : p \in Arrangements(list, 1..Len(list)) }

\* Faulty variant of InsertOutcomes: the children array of the sibling found is
\* started afresh (child.children = []) instead of kept.
InsertOutcomesOverwrite(routes, file) ==
  LET w == WalkKeys(routes, Keys(file), 0, <<>>, <<>>, <<>>)
      route == Node(w.name, w.path, file)
      pushed == IF w.cursor = <<>> THEN Append(routes, route) ELSE <<route>>
  IN { WithListAt(routes, w.cursor, sorted) : sorted \in SortOutcomes(pushed) }

\* the body of files.forEach: the forests after one more file
InsertOutcomes(routes, file) ==
  LET w == WalkKeys(routes, Keys(file), 0, <<>>, <<>>, <<>>)
      route == Node(w.name, w.path, file)
      pushed == Append(ListAt(routes, w.cursor), route)
  IN { WithListAt(routes, w.cursor, sorted) : sorted \in SortOutcomes(pushed) }

----------------------------------------------------------------------------
(* cleanChildrenRoutes: the index-collapsing pass.                         *)

\* /-index$/.test(name) || name === 'index'
IsIndexName(name) ==
  \/ name = KIndex
  \/ Len(name) >= 2 /\ name[Len(name) - 1] = "-" /\ name[Len(name)] = "index"

\* Faulty variant of StripIndexSuffix: the name 'index' is emptied too.
StripIndexAlso(name) ==
  IF name = KIndex THEN <<>>
  ELSE IF Len(name) >= 2 /\ name[Len(name) - 1] = "-" /\ name[Len(name)] = "index"
  THEN SubSeq(name, 1, Len(name) - 2) ELSE name

\* name.replace(/-index$/, '')
StripIndexSuffix(name) ==
  IF Len(name) >= 2 /\ name[Len(name) - 1] = "-" /\ name[Len(name)] = "index"
  THEN SubSeq(name, 1, Len(name) - 2) ELSE name

\* routesIndex: the split names of the routes named as an index, in order
RoutesIndex(routes) ==
  LET idx == SelectSeq(routes, LAMBDA r : r.named /\ IsIndexName(r.name))
  IN [k \in 1..Len(idx) |-> Split(idx[k].name, "-")]

\* start: the least position of 'index' in those names, -1 when there is none
RECURSIVE StartOf(_, _)
StartOf(routesIndex, start) ==
  IF routesIndex = <<>> THEN start
  ELSE LET s == IndexOf(Head(routesIndex), KIndex)
       IN StartOf(Tail(routesIndex), IF start = -1 \/ s < start THEN s ELSE start)

\* for (let a = 0; a <= i; a++) { ... }: paths when the loop is left
RECURSIVE StripLoop(_, _, _, _, _)
StripLoop(paths, names, r, i, a) ==
  IF a > i THEN paths
  ELSE LET p1 == IF a = i
                 THEN [paths EXCEPT ![a + 1] = ReplaceFirst(paths[a + 1], "?", <<>>)]
                 ELSE paths
       IN IF a < i /\ At(names, a) # At(r, a) THEN p1
          ELSE StripLoop(p1, names, r, i, a + 1)

\* routesIndex.forEach(r => ...): paths after every indexed name was applied
RECURSIVE StripOptional(_, _, _, _)
StripOptional(paths, names, routesIndex, start) ==
  IF routesIndex = <<>> THEN paths
  ELSE LET r == Head(routesIndex)
           i == IndexOf(r, KIndex) - start
           p1 == IF i < Len(paths) THEN StripLoop(paths, names, r, i, 0) ELSE paths
       IN StripOptional(p1, names, Tail(routesIndex), start)

\* route.path after the pass
CleanPath(route, isChild, routesIndex, start) ==
  LET path0 == IF isChild THEN ReplaceFirst(route.path, "/", <<>>) ELSE route.path
  IN IF IndexOf(path0, "?") > -1
     THEN LET names == Split(route.name, "-")
              split == Split(path0, "/")
              paths == IF isChild THEN split ELSE Tail(split)
          IN (IF isChild THEN <<>> ELSE <<"/">>)
               \o Join(StripOptional(paths, names, routesIndex, start), "/")
     ELSE path0

\* Faulty variant of HasEmptyChild: the child looked for has the path '/'.
HasSlashChild(route) == \E k \in 1..Len(route.children) : route.children[k].path = <<"/">>

\* route.children.find(child => child.path === '')
HasEmptyChild(route) == \E k \in 1..Len(route.children) : route.children[k].path = <<>>

RECURSIVE cleanChildrenRoutes(_, _)
cleanChildrenRoutes(routes, isChild) ==
  LET routesIndex == RoutesIndex(routes)
      start == StartOf(routesIndex, -1)
  IN [k \in 1..Len(routes) |->
        LET route == routes[k]
        IN [route EXCEPT
              !.path = CleanPath(route, isChild, routesIndex, start),
              !.name = StripIndexSuffix(route.name),
              !.named = ~(route.children # <<>> /\ HasEmptyChild(route)),
              !.children = cleanChildrenRoutes(route.children, TRUE)]]

----------------------------------------------------------------------------
(* flatRoutes.                                                             *)

\* _path.replace(/^\/+$/, '/')
OnlySlashes(s) == Len(s) >= 1 /\ \A k \in 1..Len(s) : s[k] = "/"
SquashSlashes(s) == IF OnlySlashes(s) THEN <<"/">> ELSE s

\* router.forEach(r => ...) from position k on, with the _path and the
\* routes array as the earlier positions left them
RECURSIVE flatRoutes(_, _, _)
RECURSIVE FlatEach(_, _, _, _)
\* Faulty variant of FlatEach: only ':' excludes a route, '*' does not.
RECURSIVE FlatEachKeepsCatchAll(_, _, _, _)
FlatEachKeepsCatchAll(router, k, _path, routes) ==
  IF k > Len(router) THEN routes
  ELSE LET r == router[k]
       IN IF ~Includes(r.path, ":")
          THEN IF r.children # <<>>
               THEN LET r1 == IF _path = <<>> /\ r.path = <<"/">>
                              THEN Append(routes, <<"/">>) ELSE routes
                    IN FlatEachKeepsCatchAll(router, k + 1, _path,
                         flatRoutes(r.children, _path \o r.path \o <<"/">>, r1))
               ELSE LET p1 == SquashSlashes(_path)
                        pre == IF r.path = <<>> /\ Len(p1) > 0 /\ p1[Len(p1)] = "/"
                               THEN SubSeq(p1, 1, Len(p1) - 1) ELSE p1
                    IN FlatEachKeepsCatchAll(router, k + 1, p1, Append(routes, pre \o r.path))
          ELSE FlatEachKeepsCatchAll(router, k + 1, _path, routes)

FlatEach(router, k, _path, routes) ==
  IF k > Len(router) THEN routes
  ELSE LET r == router[k]
       IN IF ~Includes(r.path, ":") /\ ~Includes(r.path, "*")
          THEN IF r.children # <<>>
               THEN LET r1 == IF _path = <<>> /\ r.path = <<"/">>
                              THEN Append(routes, <<"/">>) ELSE routes
                    IN FlatEach(router, k + 1, _path,
                                flatRoutes(r.children, _path \o r.path \o <<"/">>, r1))
               ELSE LET p1 == SquashSlashes(_path)
                        pre == IF r.path = <<>> /\ Len(p1) > 0 /\ p1[Len(p1)] = "/"
                               THEN SubSeq(p1, 1, Len(p1) - 1) ELSE p1
                    IN FlatEach(router, k + 1, p1, Append(routes, pre \o r.path))
          ELSE FlatEach(router, k + 1, _path, routes)

flatRoutes(router, _path, routes) == FlatEach(router, 1, _path, routes)

----------------------------------------------------------------------------
(* The run: createRoutes takes the files one by one, returns the cleaned   *)
(* forest, and the forest is flattened.                                    *)

VARIABLES
  files,    \* the files createRoutes has taken so far, in order
  routes,   \* the forest (the routes array and everything below it)
  built,    \* the forest as it was when the forEach ended
  flat,     \* the array flatRoutes returned
  pc        \* "build", "done" (createRoutes returned), "flat"

vars == <<files, routes, built, flat, pc>>

SeqToSet(s) == { s[k] : k \in 1..Len(s) }

Init ==
  /\ files = <<>>
  /\ routes = <<>>
  /\ built = <<>>
  /\ flat = <<>>
  /\ pc = "build"

\* one turn of files.forEach
ProcessFile(file) ==
  /\ pc = "build"
  /\ Len(files) < MaxFiles
  /\ file \notin SeqToSet(files)
  /\ \E r \in InsertOutcomes(routes, file) : routes' = r
  /\ files' = Append(files, file)
  /\ UNCHANGED <<built, flat, pc>>

\* return cleanChildrenRoutes(routes)
Return ==
  /\ pc = "build"
  /\ built' = routes
  /\ routes' = cleanChildrenRoutes(routes, FALSE)
  /\ pc' = "done"
  /\ UNCHANGED <<files, flat>>

\* flatRoutes(routes)
Flatten ==
  /\ pc = "done"
  /\ flat' = flatRoutes(routes, <<>>, <<>>)
  /\ pc' = "flat"
  /\ UNCHANGED <<files, routes, built>>

Next ==
  \/ \E file \in FileUniverse : ProcessFile(file)
  \/ Return
  \/ Flatten

Spec == Init /\ [][Next]_vars

----------------------------------------------------------------------------
\* createRoutes(files, srcDir, pagesDir) as a whole: the forests the forEach
\* can leave for the first n files of the list, and the forests returned
RECURSIVE BuildOutcomes(_, _)
BuildOutcomes(list, n) ==
  IF n = 0 THEN {<<>>}
  ELSE UNION { InsertOutcomes(r, list[n]) : r \in BuildOutcomes(list, n - 1) }

createRoutes(list) ==
  { cleanChildrenRoutes(r, FALSE) : r \in BuildOutcomes(list, Len(list)) }

----------------------------------------------------------------------------
(* Vocabulary of the properties.                                           *)

\* every sibling list of a forest: the roots and each children array
RECURSIVE SiblingLists(_)
SiblingLists(forest) ==
  {forest} \cup UNION { SiblingLists(forest[k].children) : k \in 1..Len(forest) }

\* the nodes of a forest, parents before children
RECURSIVE NodeSeq(_)
RECURSIVE NodeSeqFrom(_, _)
NodeSeqFrom(forest, k) ==
  IF k > Len(forest) THEN <<>>
  ELSE <<forest[k]>> \o NodeSeq(forest[k].children) \o NodeSeqFrom(forest, k + 1)
NodeSeq(forest) == NodeSeqFrom(forest, 1)

\* the node at the same place in the forest as built and as returned, with
\* its sibling lists and whether it is nested
RECURSIVE Places(_, _, _)
Places(b, r, nested) ==
  { [built |-> b[k], ret |-> r[k], builtList |-> b, retList |-> r, nested |-> nested]
      : k \in 1..Len(b) }
    \cup UNION { Places(b[k].children, r[k].children, TRUE) : k \in 1..Len(b) }

Orderings(list) ==
  { [k \in 1..Len(list) |-> list[p[k]]] :
      p \in { q \in [1..Len(list) -> 1..Len(list)] :
                \A i, j \in 1..Len(list) : i # j => q[i] # q[j] } }

F(keys) == PageFile(keys)
Returned == pc \in {"done", "flat"}

\* the first token of a path and its rank: 0 empty, '/' or static,
\* 1 parameter, 2 catch-all
FirstToken(path) ==
  Head(Split(IF Len(path) > 0 /\ path[1] = "/" THEN Tail(path) ELSE path, "/"))
Rank(path) ==
  LET t == FirstToken(path)
  IN IF t = <<"*">> THEN 2 ELSE IF Len(t) > 0 /\ t[1] = ":" THEN 1 ELSE 0

\* a page d/_p: a parameter file inside a directory, and its index sibling
DynamicPage(file) ==
  LET k == Keys(file)
  IN Len(k) >= 2 /\ k[Len(k)] # KAll /\ k[Len(k)][1] = "_"
IndexSibling(file) ==
  LET k == Keys(file) IN PageFile(Append(SubSeq(k, 1, Len(k) - 1), KIndex))
\* the path such a page is built with directly under the node of its directory
ChildPathBuilt(file) ==
  LET k == Keys(file) IN <<"/", ":">> \o Tail(k[Len(k)]) \o <<"?">>

\* a file without parameter or catch-all key, and its static path: the keys
\* joined by '/', a trailing index dropped
StaticFile(file) == \A k \in 1..Len(Keys(file)) : Keys(file)[k][1] # "_"
StaticPath(file) ==
  LET k == Keys(file)
      d == IF k[Len(k)] = KIndex THEN SubSeq(k, 1, Len(k) - 1) ELSE k
  IN <<"/">> \o Join(d, "/")

\* a string without its '?' symbols
WithoutOptional(s) == SelectSeq(s, LAMBDA c : c # "?")

ComponentsOf(list) == [k \in 1..Len(list) |-> list[k].component]

EndsWithDashIndex(name) ==
  Len(name) >= 2 /\ name[Len(name) - 1] = "-" /\ name[Len(name)] = "index"

----------------------------------------------------------------------------
(* C1.  Order independence: whatever order the same files are given in,    *)
(* createRoutes returns the same forest (names, paths, nesting and order   *)
(* of children); stated on the sets of forests the sort allows, so that it *)
(* fails only where the order of the files itself changes the result.      *)
C1_OrderIndependent ==
  Returned => \A list \in Orderings(files) : createRoutes(list) = createRoutes(files)

(* C4.  Precedence ordering: after every insertion and in the returned     *)
(* forest, in every sibling list the siblings whose path is empty, '/' or  *)
(* starts with a static token come before those starting with a parameter  *)
(* token, and those starting with the catch-all token come last.           *)
C4_PrecedenceOrdering ==
  \A list \in SiblingLists(routes) :
    \A i, j \in 1..Len(list) : i < j => Rank(list[i].path) <= Rank(list[j].path)

\* the catch-all, then the parameter, then the static page were inserted at
\* the root, and the sort has put them in the opposite order
C4_Witness ==
  /\ Returned
  /\ files = <<F(<<KAll>>), F(<<KP>>), F(<<KA>>)>>
  /\ routes[1].component = F(<<KA>>)
  /\ routes[2].component = F(<<KP>>)
  /\ routes[3].component = F(<<KAll>>)

(* C5.  Sibling name uniqueness: in the returned forest no two nodes of    *)
(* one sibling list carry the same non-empty name.                         *)
C5_UniqueSiblingNames ==
  Returned =>
    \A list \in SiblingLists(routes) :
      \A i, j \in 1..Len(list) :
        (i # j /\ list[i].named /\ list[j].named /\ list[i].name # <<>>)
          => list[i].name # list[j].name

(* C6.  One node per file: after each file and in the returned forest,     *)
(* every file taken so far is the component of exactly one node, which     *)
(* carries that file's chunk name, and there is no other node.             *)
C6_OneNodePerFile ==
  LET nodes == NodeSeq(routes)
  IN /\ Len(nodes) = Len(files)
     /\ \A k \in 1..Len(files) :
          Cardinality({ n \in 1..Len(nodes) : nodes[n].component = files[k] }) = 1
     /\ \A n \in 1..Len(nodes) :
          nodes[n].chunkName = SubSeq(nodes[n].component, 1, Len(nodes[n].component) - 1)

\* three files were merged into one branch (a, a/_p under it, a/_p/b under
\* that) and the forest was returned
C6_Witness ==
  /\ Returned
  /\ files = <<F(<<KA>>), F(<<KA, KP>>), F(<<KA, KP, KB>>)>>
  /\ Len(routes) = 1
  /\ Len(routes[1].children) = 1
  /\ Len(routes[1].children[1].children) = 1

(* C10.  The comparator is a strict total order on the paths of one        *)
(* sibling list: two distinct paths compare with opposite signs in the two *)
(* argument orders, and the comparison is transitive.                      *)
C10_ComparatorTotalOrder ==
  pc = "build" =>
    \A list \in SiblingLists(routes) :
      LET P == { list[k].path : k \in 1..Len(list) }
      IN /\ \A a, b \in P : a # b => ((compare(a, b) < 0) <=> (compare(b, a) > 0))
         /\ \A a, b, c \in P :
              (a # b /\ b # c /\ a # c /\ compare(a, b) < 0 /\ compare(b, c) < 0)
                => compare(a, c) < 0

(* C2.  Optional disambiguation, as claimed: the node of a page d/_p       *)
(* carries '?' only when the index sibling d/index exists, and the token   *)
(* is required when it does not.                                           *)
C2_OptionalOnlyWithIndex ==
  Returned =>
    \A pl \in Places(built, routes, FALSE) :
      DynamicPage(pl.ret.component) =>
        /\ Includes(pl.ret.path, "?") => IndexSibling(pl.ret.component) \in SeqToSet(files)
        /\ IndexSibling(pl.ret.component) \notin SeqToSet(files) => ~Includes(pl.ret.path, "?")

(* C2, amended.  The node of a page d/_p is built with the optional marker *)
(* and keeps it whenever no sibling in its list has an index name; when it *)
(* is a child of the node of d (built path '/:p?'), the returned path is   *)
(* ':p' if a sibling has an index name (such as d/index) and ':p?' if not. *)
C2_OptionalUnlessIndex ==
  Returned =>
    \A pl \in Places(built, routes, FALSE) :
      DynamicPage(pl.ret.component) =>
        LET indexed == \E k \in 1..Len(pl.builtList) :
                         \/ pl.builtList[k].name = KIndex
                         \/ EndsWithDashIndex(pl.builtList[k].name)
            token == Tail(ChildPathBuilt(pl.ret.component))
        IN /\ Includes(pl.built.path, "?")
           /\ ~indexed => Includes(pl.ret.path, "?")
           /\ (pl.nested /\ pl.built.path = ChildPathBuilt(pl.ret.component)) =>
                pl.ret.path = (IF indexed THEN WithoutOptional(token) ELSE token)

\* a/_p under a with the sibling a/index: the marker was removed
C2_Witness ==
  /\ Returned
  /\ files = <<F(<<KA>>), F(<<KA, KIndex>>), F(<<KA, KP>>)>>
  /\ routes[1].children[2].component = F(<<KA, KP>>)
  /\ built[1].children[2].path = <<"/", ":", "p", "?">>
  /\ routes[1].children[2].path = <<":", "p">>

C3_Files == { F(<<KA, KIndex>>), F(<<KA, KP>>), F(<<KA, KP, KB>>) }

(* C3.  Merge correctness, as claimed: for exactly the files d/index, d/_p *)
(* and d/_p/e the forest has one root node, with an index child of empty   *)
(* path and a child ':p' that has the one child 'e'.                       *)
C3_MergedUnderOneRoot ==
  (Returned /\ SeqToSet(files) = C3_Files) =>
    /\ Len(routes) = 1
    /\ Len(routes[1].children) = 2
    /\ \E i, j \in 1..2 :
         /\ routes[1].children[i].path = <<>>
         /\ routes[1].children[j].path = <<":", "p">>
         /\ Len(routes[1].children[j].children) = 1
         /\ routes[1].children[j].children[1].path = <<"b">>

(* C3, amended.  For exactly the files d/index, d/_p and d/_p/e (d and e   *)
(* static, e not 'index') no node for d is made: d/index is a root node    *)
(* named d with path '/d' and no children, d/_p is a root node with path   *)
(* '/d/:p?', and d/_p/e is the only child 'e' of the d/_p node when d/_p   *)
(* was given before it, and a third root node with path '/d/:p?/e'         *)
(* otherwise.                                                              *)
C3_RootsWithoutParent ==
  (Returned /\ SeqToSet(files) = C3_Files) =>
    LET pos(f) == CHOOSE k \in 1..Len(files) : files[k] = f
        nested == pos(F(<<KA, KP>>)) < pos(F(<<KA, KP, KB>>))
    IN /\ Len(routes) = (IF nested THEN 2 ELSE 3)
       /\ \E k \in 1..Len(routes) :
            /\ routes[k].component = F(<<KA, KIndex>>)
            /\ routes[k].named /\ routes[k].name = <<"a">>
            /\ routes[k].path = <<"/", "a">>
            /\ routes[k].children = <<>>
       /\ \E k \in 1..Len(routes) :
            /\ routes[k].component = F(<<KA, KP>>)
            /\ routes[k].path = <<"/", "a", "/", ":", "p", "?">>
            /\ IF nested
               THEN /\ Len(routes[k].children) = 1
                    /\ routes[k].children[1].component = F(<<KA, KP, KB>>)
                    /\ routes[k].children[1].path = <<"b">>
               ELSE /\ routes[k].children = <<>>
                    /\ \E m \in 1..Len(routes) :
                         /\ routes[m].component = F(<<KA, KP, KB>>)
                         /\ routes[m].path = <<"/", "a", "/", ":", "p", "?", "/", "b">>

\* the three files in the order of the claim, returned as two roots
C3_Witness ==
  /\ Returned
  /\ files = <<F(<<KA, KIndex>>), F(<<KA, KP>>), F(<<KA, KP, KB>>)>>
  /\ Len(routes) = 2
  /\ Len(routes[2].children) = 1

C8_WrapperKeepsPath ==
  Returned =>
    \A pl \in Places(built, routes, FALSE) :
      /\ ~pl.ret.named <=> (\E k \in 1..Len(pl.ret.children) : pl.ret.children[k].path = <<>>)
      /\ ~pl.ret.named =>
           /\ pl.ret.path = pl.built.path
           /\ ComponentsOf(pl.ret.children) = ComponentsOf(pl.built.children)

(* C8, amended.  A returned node has no name exactly when one of its       *)
(* children has an empty path; such a node keeps its children (same nodes, *)
(* same order), and its path is the built one after the rewriting every    *)
(* node gets: a nested node loses its leading '/', and optional markers    *)
(* may be removed.                                                         *)
C8_WrapperKeepsChildren ==
  Returned =>
    \A pl \in Places(built, routes, FALSE) :
      /\ ~pl.ret.named <=> (\E k \in 1..Len(pl.ret.children) : pl.ret.children[k].path = <<>>)
      /\ ~pl.ret.named =>
           /\ WithoutOptional(pl.ret.path) =
                WithoutOptional(IF pl.nested /\ Len(pl.built.path) > 0 /\ pl.built.path[1] = "/"
                                THEN Tail(pl.built.path) ELSE pl.built.path)
           /\ ComponentsOf(pl.ret.children) = ComponentsOf(pl.built.children)

\* a/b under a, wrapping a/b/index: the nested wrapper lost its name and its
\* leading '/'
C8_Witness ==
  /\ Returned
  /\ files = <<F(<<KA>>), F(<<KA, KB>>), F(<<KA, KB, KIndex>>)>>
  /\ ~routes[1].children[1].named
  /\ built[1].children[1].path = <<"/", "b">>
  /\ routes[1].children[1].path = <<"b">>
  /\ routes[1].children[1].children[1].path = <<>>

(* C9.  Index name stripping, as claimed: no name in the returned forest   *)
(* ends with the index indicator; 'x-index' becomes 'x' and the root-level *)
(* 'index' gets the empty name.                                            *)
C9_NoIndexNames ==
  Returned =>
    \A pl \in Places(built, routes, FALSE) :
      /\ pl.ret.named => (pl.ret.name # KIndex /\ ~EndsWithDashIndex(pl.ret.name))
      /\ (pl.ret.named /\ pl.built.name = KIndex) => pl.ret.name = <<>>

(* C9, amended.  The pass removes one trailing '-index' from every name:   *)
(* 'x-index' becomes 'x', 'x-index-index' becomes 'x-index', and the name  *)
(* 'index' of the root-level index page stays 'index'.                     *)
C9_OneIndexSuffixStripped ==
  Returned =>
    \A pl \in Places(built, routes, FALSE) :
      pl.ret.named =>
        /\ pl.ret.name = (IF EndsWithDashIndex(pl.built.name)
                          THEN SubSeq(pl.built.name, 1, Len(pl.built.name) - 2)
                          ELSE pl.built.name)
        /\ pl.built.name = KIndex => pl.ret.name = KIndex

\* the three shapes of name at the root: index, a-index-index, a-index
C9_Witness ==
  /\ Returned
  /\ files = <<F(<<KIndex>>), F(<<KA, KIndex, KIndex>>), F(<<KA, KIndex>>)>>
  /\ Len(routes) = 3
  /\ { routes[k].name : k \in 1..3 } = { KIndex, <<"a", "-", "index">>, <<"a">> }

====
